---------------------------- MODULE Spec2Model ----------------------------
(***************************************************************************)
(* Model of chat_with_tools.py: the interactive console client of the      *)
(* /v1/responses endpoint.  The model covers the line decoder              *)
(* (stream_response), the phase interpreter (print_streaming_response),    *)
(* the finished-object printer (print_non_streaming_response) and the      *)
(* REPL loop of main with its session id (previous_id) and tools toggle.   *)
(*                                                                         *)
(* What is printed to the terminal is modelled as a log of render actions  *)
(* (the variable printed), one record per print call of the source.        *)
(* The text the user types reaches the program only as the "input" key of *)
(* the payload, which nothing in the program reads back; it is left out.   *)
(***************************************************************************)
EXTENDS Naturals, Sequences, FiniteSets

VARIABLES
    no_stream,      \* args.no_stream                        (main, line 198)
    tools,          \* the configured tool list              (main, 213-217)
    previous_id,    \* the session id of the REPL            (main, line 233)
    use_tools,      \* the tools toggle                      (main, line 234)
    pc,             \* where the program is: "input", "streaming", "exited",
                    \* "crashed" (left by an exception nothing catches)
    wire,           \* the lines the server has sent on this turn's connection
    idx,            \* how many of them resp.iter_lines() has handed out
    yielded,        \* the events stream_response has yielded this turn
    sr_response_id, \* response_id of stream_response        (line 46)
    response_id,    \* response_id of print_streaming_response (line 96)
    current_phase,  \* current_phase of print_streaming_response (line 97)
    printed,        \* the render actions printed during the last turn
    payload,        \* the payload of the last request posted
    response,       \* the finished response object of the last turn
    id_before,      \* previous_id when the last turn started (history)
    op,             \* the last thing the REPL did (history): "init", "turn"
                    \* (a turn is under way), "returned", "error", "clear",
                    \* "tools", "empty", "quit", "interrupt"
    returned,       \* what print_*_response returned to main, if it returned
    conn            \* the connection of a streaming turn (resp, line 39):
                    \* "open" from the post until something closes it

vars == << no_stream, tools, previous_id, use_tools, pc, wire, idx, yielded,
           sr_response_id, response_id, current_phase, printed, payload,
           response, id_before, op, returned, conn >>

-----------------------------------------------------------------------------
(* Bounds of the model.                                                    *)

\* Lines before the end of a stream checked on its own (SpecStream).
MaxLines == 3
\* Lines before the end of a stream inside the REPL (Spec).
MaxTurnLines == 2
\* Items of a finished response object (SpecEquiv).
MaxItems == 2

-----------------------------------------------------------------------------
(* Values.                                                                 *)

\* Python's None.  No identifier, phase or name of the model is this string.
None == "None"

\* Response identifiers a server may send.  The empty string is a JSON
\* string like any other; Python treats it as false in a condition.
Ids == {"", "resp_1", "resp_2"}

\* Python truthiness of an optional string, as tested by `if previous_id:`.
Truthy(v) == v # None /\ v # ""

\* A text is a sequence of characters, so that deltas concatenate.
Hello == << "h", "e", "l", "l", "o" >>
World == << "w", "o", "r", "l", "d" >>
Wor   == << "w", "o", "r" >>
Ld    == << "l", "d" >>
OnePlusOne == << "1", "+", "1" >>
Braces == << "{", "}" >>

\* A parsed JSON object, reduced to the keys the program reads.  A key that
\* is missing reads as the default of its .get() call: type '' (line 64),
\* delta '' (113), response.id None (106), item.type None (147).
Ev(t, d, i, it, n) == [type |-> t, delta |-> d, id |-> i, item_type |-> it, name |-> n]

NoEvent == Ev("", << >>, None, None, None)

EvCreated(i)   == Ev("response.created", << >>, i, None, None)
EvReasoning(d) == Ev("response.reasoning_text.delta", d, None, None, None)
EvCode(d)      == Ev("response.code_interpreter_call_code.delta", d, None, None, None)
EvInterpreting == Ev("response.code_interpreter_call.interpreting", << >>, None, None, None)
EvCompleted    == Ev("response.code_interpreter_call.completed", << >>, None, None, None)
EvFunction(d)  == Ev("response.function_call_arguments.delta", d, None, None, None)
EvText(d)      == Ev("response.output_text.delta", d, None, None, None)
EvItem(it, n)  == Ev("response.output_item.added", << >>, None, it, n)
EvFuture       == Ev("response.something_future.delta", << "x" >>, None, None, None)

\* A line of the transport.  text: "empty" (b''), "other" (no 'data: '
\* prefix) or "data".  body is what follows the prefix: "done" ([DONE]),
\* "invalid" (json.loads raises JSONDecodeError), "scalar" (json.loads
\* returns a value that is not an object, such as 42) or "object".
Line(t, b, e) == [text |-> t, body |-> b, event |-> e]

LnEmpty   == Line("empty", "-", NoEvent)
LnOther   == Line("other", "-", NoEvent)
LnDone    == Line("data", "done", NoEvent)
LnInvalid == Line("data", "invalid", NoEvent)
LnScalar  == Line("data", "scalar", NoEvent)
LnEv(e)   == Line("data", "object", e)

\* The events of the model's streams.
Events ==
    { EvCreated(i) : i \in Ids \cup {None} }
    \cup { EvReasoning(Hello), EvCode(OnePlusOne), EvInterpreting, EvCompleted,
           EvFunction(Braces), EvText(Wor), EvText(Ld),
           EvItem("function_call", "get_weather"), EvItem("message", None),
           EvFuture, NoEvent }

\* The lines of the model's streams.
Lines ==
    {LnEmpty, LnOther, LnInvalid, LnScalar, LnDone} \cup { LnEv(e) : e \in Events }

\* The lines of the streams of the REPL's turns.
TurnLines ==
    { LnEmpty, LnInvalid, LnScalar, LnDone, LnEv(EvCreated("resp_1")),
      LnEv(EvCreated("resp_2")), LnEv(EvCreated("")), LnEv(EvCreated(None)),
      LnEv(EvText(Wor)), LnEv(EvCode(OnePlusOne)) }

\* What the server may have sent behind a [DONE] line.
Behind ==
    { << >>, << LnEv(EvText(Ld)) >>, << LnEv(EvCreated("resp_2")) >>, << LnDone >> }

-----------------------------------------------------------------------------
(* The request.                                                            *)

\* A payload built without lines 36-37 and 83-84.
PayloadWithoutPrevious(stream, active_tools, prev) ==
    [ stream |-> stream,
      tools |-> active_tools,
      has_previous |-> FALSE,
      previous_response_id |-> None ]

\* The payload of stream_response (lines 30-37) and of non_stream_response
\* (77-84).  has_previous says whether the key previous_response_id is set.
Payload(stream, active_tools, prev) ==
    [ stream |-> stream,
      tools |-> active_tools,
      has_previous |-> Truthy(prev),
      previous_response_id |-> IF Truthy(prev) THEN prev ELSE None ]

\* No request has been posted yet.
NoPayload == [ stream |-> FALSE, tools |-> << >>, has_previous |-> FALSE,
               previous_response_id |-> None ]

\* A turn that carries the configured tools whatever the toggle says.
AllTools(configured, toggle) == configured

\* active_tools = tools if use_tools else []   (line 266)
ActiveTools(configured, toggle) == IF toggle THEN configured ELSE << >>

-----------------------------------------------------------------------------
(* stream_response: the decoder.                                           *)

\* A decoder that goes on at [DONE] instead of breaking.
DecodeLinePastDone(line) ==
    IF line.text = "empty" THEN "continue"
    ELSE IF line.text # "data" THEN "continue"
    ELSE IF line.body = "done" THEN "continue"
    ELSE IF line.body = "invalid" THEN "continue"
    ELSE IF line.body = "scalar" THEN "raise"
    ELSE "yield"

\* What the loop body of stream_response (lines 49-70) does with one line:
\* "continue" (the line is dropped), "break" ([DONE]), "raise" (event.get
\* on a value that is not an object: AttributeError, which the except
\* clause of line 61 does not catch) or "yield".
DecodeLine(line) ==
    IF line.text = "empty" THEN "continue"                \* 50-51
    ELSE IF line.text # "data" THEN "continue"            \* 53-54
    ELSE IF line.body = "done" THEN "break"               \* 56-57
    ELSE IF line.body = "invalid" THEN "continue"         \* 59-62
    ELSE IF line.body = "scalar" THEN "raise"             \* 64
    ELSE "yield"                                          \* 70

\* response_id of stream_response after an event (lines 67-68).
DecoderId(event, rid) ==
    IF event.type = "response.created" THEN event.id ELSE rid

-----------------------------------------------------------------------------
(* print_streaming_response: the phase interpreter.                        *)

\* One print call, as a render action: what it is, and its phase or name
\* (arg), its text (text) or its count (n).
P(a, x, t, k) == [act |-> a, arg |-> x, text |-> t, n |-> k]

BeginPhase(ph)   == P("beginPhase", ph, << >>, 0)
AppendText(t)    == P("appendText", "", t, 0)
ToolAnnounce(nm) == P("toolAnnounce", nm, << >>, 0)
UsageNote(k)     == P("usageNote", "", << >>, k)
Mark(a)          == P(a, "", << >>, 0)

\* A delta handler that prints the phase marker at every delta.
DeltaAlwaysBegins(event, phase, rid, ph) ==
    [ current_phase |-> ph,
      response_id |-> rid,
      prints |-> << BeginPhase(ph), AppendText(event.delta) >> ]

\* A delta event of phase ph (lines 110-113, 117-120, 132-135, 139-142):
\* the phase marker is printed only when the phase changes.
Delta(event, phase, rid, ph) ==
    [ current_phase |-> ph,
      response_id |-> rid,
      prints |-> (IF phase # ph THEN << BeginPhase(ph) >> ELSE << >>)
                 \o << AppendText(event.delta) >> ]

\* A loop body whose last branch closes the phase at an event of a type
\* it does not know.
OnEventUnknownCloses(event, phase, rid) ==
    LET same(prints) == [current_phase |-> phase, response_id |-> rid, prints |-> prints]
    IN
    IF event.type = "response.created"
        THEN [current_phase |-> phase, response_id |-> event.id, prints |-> << >>]
    ELSE IF event.type = "response.reasoning_text.delta"
        THEN Delta(event, phase, rid, "reasoning")
    ELSE IF event.type = "response.code_interpreter_call_code.delta"
        THEN Delta(event, phase, rid, "code")
    ELSE IF event.type = "response.code_interpreter_call.interpreting"
        THEN [current_phase |-> "executing", response_id |-> rid,
              prints |-> << BeginPhase("executing") >>]
    ELSE IF event.type = "response.code_interpreter_call.completed"
        THEN same(<< Mark("executionDone") >>)
    ELSE IF event.type = "response.function_call_arguments.delta"
        THEN Delta(event, phase, rid, "function")
    ELSE IF event.type = "response.output_text.delta"
        THEN Delta(event, phase, rid, "text")
    ELSE IF event.type = "response.output_item.added"
        THEN same(IF event.item_type = "function_call"
                  THEN << ToolAnnounce(event.name) >> ELSE << >>)
    ELSE [current_phase |-> None, response_id |-> rid, prints |-> << >>]

\* A loop body whose tool announcement opens the function phase.
OnEventAnnounceOpens(event, phase, rid) ==
    LET same(prints) == [current_phase |-> phase, response_id |-> rid, prints |-> prints]
    IN
    IF event.type = "response.created"
        THEN [current_phase |-> phase, response_id |-> event.id, prints |-> << >>]
    ELSE IF event.type = "response.reasoning_text.delta"
        THEN Delta(event, phase, rid, "reasoning")
    ELSE IF event.type = "response.code_interpreter_call_code.delta"
        THEN Delta(event, phase, rid, "code")
    ELSE IF event.type = "response.code_interpreter_call.interpreting"
        THEN [current_phase |-> "executing", response_id |-> rid,
              prints |-> << BeginPhase("executing") >>]
    ELSE IF event.type = "response.code_interpreter_call.completed"
        THEN same(<< Mark("executionDone") >>)
    ELSE IF event.type = "response.function_call_arguments.delta"
        THEN Delta(event, phase, rid, "function")
    ELSE IF event.type = "response.output_text.delta"
        THEN Delta(event, phase, rid, "text")
    ELSE IF event.type = "response.output_item.added"
        THEN IF event.item_type = "function_call"
             THEN [current_phase |-> "function", response_id |-> rid,
                   prints |-> << ToolAnnounce(event.name) >>]
             ELSE same(<< >>)
    ELSE same(<< >>)

\* The body of the loop of print_streaming_response for one event
\* (lines 102-149): the new current_phase and response_id, and the prints.
OnEvent(event, phase, rid) ==
    LET same(prints) == [current_phase |-> phase, response_id |-> rid, prints |-> prints]
    IN
    IF event.type = "response.created"
        THEN [current_phase |-> phase, response_id |-> event.id, prints |-> << >>]
    ELSE IF event.type = "response.reasoning_text.delta"
        THEN Delta(event, phase, rid, "reasoning")
    ELSE IF event.type = "response.code_interpreter_call_code.delta"
        THEN Delta(event, phase, rid, "code")
    ELSE IF event.type = "response.code_interpreter_call.interpreting"
        THEN [current_phase |-> "executing", response_id |-> rid,
              prints |-> << BeginPhase("executing") >>]
    ELSE IF event.type = "response.code_interpreter_call.completed"
        THEN same(<< Mark("executionDone") >>)
    ELSE IF event.type = "response.function_call_arguments.delta"
        THEN Delta(event, phase, rid, "function")
    ELSE IF event.type = "response.output_text.delta"
        THEN Delta(event, phase, rid, "text")
    ELSE IF event.type = "response.output_item.added"
        THEN same(IF event.item_type = "function_call"
                  THEN << ToolAnnounce(event.name) >> ELSE << >>)
    ELSE same(<< >>)

\* A function that returns without the print of line 151.
NoAfterLoop == << >>

\* The print before the loop (line 99) and the one after it (line 151).
BeforeLoop == << Mark("gray") >>
AfterLoop  == << Mark("reset") >>

\* The message of main's except clause (line 277).
ErrorMessage == << Mark("error") >>

-----------------------------------------------------------------------------
(* main: what a turn leaves in the session.                                *)

\* previous_id = print_streaming_response(...)   (line 275)
\* previous_id = print_non_streaming_response(response)   (line 273)
AssignSession(prev, result) == result

\* An except clause that commits the id captured before the failure.
CommitCaptured(prev, rid) == rid

\* The except clause (lines 276-278) assigns nothing.
KeepSession(prev, rid) == prev

-----------------------------------------------------------------------------
(* A streaming turn, line by line.  Each action reads one line from        *)
(* resp.iter_lines() and runs the program up to its next read, or to the   *)
(* next prompt when the turn ends there.  S is the set of lines the server *)
(* may send and n the number of lines after which it ends the stream.      *)

Streaming == pc = "streaming"

\* The server sends a line and the decoder drops it (continue).
StreamSkip(S, n) ==
    /\ Streaming /\ idx = Len(wire) /\ Len(wire) < n
    /\ \E line \in S :
        /\ DecodeLine(line) = "continue"
        /\ wire' = Append(wire, line)
    /\ idx' = idx + 1
    /\ UNCHANGED << no_stream, tools, previous_id, use_tools, pc, yielded,
                    sr_response_id, response_id, current_phase, printed,
                    payload, response, id_before, op, returned, conn >>

\* The server sends a data frame that parses to an object: the decoder
\* yields it and the loop body of print_streaming_response handles it.
StreamEvent(S, n) ==
    /\ Streaming /\ idx = Len(wire) /\ Len(wire) < n
    /\ \E line \in S :
        /\ DecodeLine(line) = "yield"
        /\ wire' = Append(wire, line)
        /\ LET r == OnEvent(line.event, current_phase, response_id)
           IN  /\ current_phase' = r.current_phase
               /\ response_id' = r.response_id
               /\ printed' = printed \o r.prints
        /\ sr_response_id' = DecoderId(line.event, sr_response_id)
        /\ yielded' = Append(yielded, line.event)
    /\ idx' = idx + 1
    /\ UNCHANGED << no_stream, tools, previous_id, use_tools, pc, payload,
                    response, id_before, op, returned, conn >>

\* The loop of print_streaming_response is over: line 151 prints the
\* reset, line 152 returns response_id and line 275 assigns it.
EndOfStream ==
    /\ printed' = printed \o AfterLoop
    /\ returned' = response_id
    /\ previous_id' = AssignSession(previous_id, response_id)
    /\ op' = "returned"
    /\ pc' = "input"
    /\ UNCHANGED << no_stream, tools, use_tools, yielded, sr_response_id,
                    response_id, current_phase, payload, response, id_before >>

\* The server sends [DONE], with or without more lines behind it, and the
\* decoder breaks (line 57).  The body is not read to its end and nothing
\* in lines 39-72 closes resp: the connection stays as it is.
StreamBreak(S) ==
    /\ Streaming /\ idx = Len(wire)
    /\ \E line \in S :
        /\ DecodeLine(line) = "break"
        /\ \E rest \in Behind : wire' = Append(wire, line) \o rest
    /\ idx' = idx + 1
    /\ EndOfStream
    /\ UNCHANGED conn

\* The server closes the connection: iter_lines() is exhausted, and a
\* body read to its end releases its connection.
StreamClosed ==
    /\ Streaming /\ idx = Len(wire)
    /\ EndOfStream
    /\ conn' = "closed"
    /\ UNCHANGED << wire, idx >>

\* An exception leaves the turn: main's except clause prints the message
\* and goes back to the prompt (lines 276-278).
TurnFails ==
    /\ printed' = printed \o ErrorMessage
    /\ previous_id' = KeepSession(previous_id, response_id)
    /\ op' = "error"
    /\ pc' = "input"
    /\ UNCHANGED << no_stream, tools, use_tools, yielded, sr_response_id,
                    response_id, current_phase, payload, response, id_before,
                    returned >>

\* The server sends a data frame whose JSON value is not an object: line
\* 64 raises inside the loop over the body, and nothing closes resp.
StreamRaise(S, n) ==
    /\ Streaming /\ idx = Len(wire) /\ Len(wire) < n
    /\ \E line \in S :
        /\ DecodeLine(line) = "raise"
        /\ wire' = Append(wire, line)
    /\ idx' = idx + 1
    /\ TurnFails
    /\ UNCHANGED conn

\* The connection breaks: iter_lines() raises a requests exception, and
\* the connection that failed is closed with it.
StreamDisconnect ==
    /\ Streaming /\ idx = Len(wire)
    /\ TurnFails
    /\ conn' = "closed"
    /\ UNCHANGED << wire, idx >>

\* The user interrupts the turn (Ctrl-C): KeyboardInterrupt is raised in
\* the middle of lines 270-275.  It is a BaseException and not an
\* Exception, so the except clause of line 276 does not catch it; it leaves
\* main and the process ends, which closes its sockets.
Interrupted ==
    /\ op' = "interrupt"
    /\ pc' = "crashed"
    /\ conn' = "closed"

StreamInterrupt ==
    /\ Streaming /\ idx = Len(wire)
    /\ Interrupted
    /\ UNCHANGED << no_stream, tools, previous_id, use_tools, wire, idx, yielded,
                    sr_response_id, response_id, current_phase, printed,
                    payload, response, id_before, returned >>

-----------------------------------------------------------------------------
(* print_non_streaming_response: the finished response object.             *)

\* A content block of an item, an item of response.output and a response
\* object, each reduced to the keys the program reads.
Block(t, x) == [type |-> t, text |-> x]

Item(t, c, code, outs, nm) ==
    [type |-> t, content |-> c, code |-> code, outputs |-> outs, name |-> nm]

ItReasoning(x) == Item("reasoning", << Block("reasoning_text", x) >>, << >>, 0, None)
ItCode(c, k)   == Item("code_interpreter_call", << >>, c, k, None)
ItFunction(nm) == Item("function_call", << >>, << >>, 0, nm)
ItMessage(c)   == Item("message", c, << >>, 0, None)

\* id: None when the object has no id.  usage_path: the last key that is
\* there on the way usage, output_tokens_details, tool_output_tokens
\* ("absent" when the object has no usage).  tool_output_tokens: the value
\* under the last of them, when it is there.
ResponseUpTo(i, out, path, k) ==
    [id |-> i, output |-> out, usage_path |-> path, tool_output_tokens |-> k]

\* A response object with its usage counters.
Response(i, out, k) == ResponseUpTo(i, out, "tool_output_tokens", k)

\* tool_tokens of lines 186-188: the default of the first .get() whose key
\* is missing is an empty dict, and 0 for the last.
ToolTokens(resp) ==
    IF resp.usage_path = "tool_output_tokens" THEN resp.tool_output_tokens ELSE 0

NoResponse == Response(None, << >>, 0)

\* text[:200]   (line 166)
PreviewLen == 200

\* A slice that cuts nothing.
TakeAll(x, k) == x

Take(x, k) == IF Len(x) <= k THEN x ELSE SubSeq(x, 1, k)

\* A message printer that stops after the first content block.
PrintFirstBlock(content) ==
    IF content = << >> THEN << >>
    ELSE IF Head(content).type = "output_text"
         THEN << BeginPhase("text"), AppendText(Head(content).text) >>
         ELSE << >>

\* The prints of one item (lines 160-183).
RECURSIVE PrintBlocks(_)
PrintBlocks(content) ==
    IF content = << >> THEN << >>
    ELSE (IF Head(content).type = "output_text"
          THEN << BeginPhase("text"), AppendText(Head(content).text) >>
          ELSE << >>) \o PrintBlocks(Tail(content))

PrintItem(item) ==
    IF item.type = "reasoning" THEN
        IF item.content # << >>
        THEN << BeginPhase("reasoning"),
                AppendText(Take(item.content[1].text, PreviewLen)) >>
             \o (IF Len(item.content[1].text) > PreviewLen
                 THEN << Mark("ellipsis") >> ELSE << >>)
        ELSE << >>
    ELSE IF item.type = "code_interpreter_call" THEN
        << BeginPhase("code"), AppendText(item.code) >>
        \o (IF item.outputs > 0 THEN << Mark("output") >> ELSE << >>)
    ELSE IF item.type = "function_call" THEN
        << ToolAnnounce(item.name), Mark("arguments"), Mark("instruction") >>
    ELSE IF item.type = "message" THEN PrintBlocks(item.content)
    ELSE << >>

\* A printer that goes through the items from the last to the first.
RECURSIVE PrintItemsBackwards(_)
PrintItemsBackwards(output) ==
    IF output = << >> THEN << >>
    ELSE PrintItemsBackwards(Tail(output)) \o PrintItem(Head(output))

RECURSIVE PrintItems(_)
PrintItems(output) ==
    IF output = << >> THEN << >>
    ELSE PrintItem(Head(output)) \o PrintItems(Tail(output))

\* A printer that notes the usage whenever the counter is there.
PrintNonStreamingNotesZero(resp) ==
    [ prints |-> PrintItems(resp.output)
                 \o (IF resp.usage_path = "tool_output_tokens"
                     THEN << UsageNote(ToolTokens(resp)) >> ELSE << >>)
                 \o << Mark("newline") >>,
      returns |-> resp.id ]

\* print_non_streaming_response (lines 155-193): what it prints and what
\* it returns.
PrintNonStreaming(resp) ==
    [ prints |-> PrintItems(resp.output)
                 \o (IF ToolTokens(resp) > 0
                     THEN << UsageNote(ToolTokens(resp)) >> ELSE << >>)
                 \o << Mark("newline") >>,
      returns |-> resp.id ]

-----------------------------------------------------------------------------
(* main: the REPL.                                                         *)

\* tools as built from args.no_code and args.no_search (lines 213-217).
BuildTools(no_code, no_search) ==
    (IF ~no_code THEN << "code_interpreter" >> ELSE << >>)
    \o (IF ~no_search THEN << "web_search_preview" >> ELSE << >>)

\* The finished response objects a server may answer with.
Outputs ==
    { << >>,
      << ItReasoning(Hello), ItMessage(<< Block("output_text", World) >>) >>,
      << ItFunction("get_weather") >>,
      << ItCode(OnePlusOne, 1) >> }

Responses == { Response(i, out, k) : i \in Ids \cup {None}, out \in Outputs, k \in {0, 5} }

AtPrompt == pc = "input"

\* Locals of which the phase outlives the call.
FreshLocalsKeepPhase ==
    /\ wire' = << >>
    /\ idx' = 0
    /\ yielded' = << >>
    /\ sr_response_id' = None
    /\ response_id' = None
    /\ UNCHANGED current_phase
    /\ response' = NoResponse
    /\ returned' = None

\* The locals of the turn functions, as they are when a turn starts
\* (lines 46, 96, 97) and once the functions are left.
FreshLocals ==
    /\ wire' = << >>
    /\ idx' = 0
    /\ yielded' = << >>
    /\ sr_response_id' = None
    /\ response_id' = None
    /\ current_phase' = None
    /\ response' = NoResponse
    /\ returned' = None

Init ==
    /\ no_stream \in BOOLEAN
    /\ \E no_code \in BOOLEAN, no_search \in BOOLEAN :
           tools = BuildTools(no_code, no_search)
    /\ previous_id = None
    /\ use_tools = TRUE
    /\ pc = "input"
    /\ wire = << >>
    /\ idx = 0
    /\ yielded = << >>
    /\ sr_response_id = None
    /\ response_id = None
    /\ current_phase = None
    /\ printed = << >>
    /\ payload = NoPayload
    /\ response = NoResponse
    /\ id_before = None
    /\ op = "init"
    /\ returned = None
    /\ conn = "closed"

\* An empty line at the prompt (lines 243-244).
InputEmpty ==
    /\ AtPrompt
    /\ op' = "empty"
    /\ printed' = << >>
    /\ FreshLocals
    /\ UNCHANGED << no_stream, tools, previous_id, use_tools, pc, payload,
                    id_before, conn >>

\* /quit, /exit, /q, or an interrupt or end of input at the prompt
\* (lines 239-241, 247-249): main returns and the process ends.
InputQuit ==
    /\ AtPrompt
    /\ op' = "quit"
    /\ pc' = "exited"
    /\ conn' = "closed"
    /\ printed' = << Mark("goodbye") >>
    /\ FreshLocals
    /\ UNCHANGED << no_stream, tools, previous_id, use_tools, payload, id_before >>

\* /clear (lines 251-254).
InputClear ==
    /\ AtPrompt
    /\ previous_id' = None
    /\ op' = "clear"
    /\ printed' = << Mark("cleared") >>
    /\ FreshLocals
    /\ UNCHANGED << no_stream, tools, use_tools, pc, payload, id_before, conn >>

\* /tools (lines 256-259).
InputTools ==
    /\ AtPrompt
    /\ use_tools' = ~use_tools
    /\ op' = "tools"
    /\ printed' = << Mark("toolsToggled") >>
    /\ FreshLocals
    /\ UNCHANGED << no_stream, tools, previous_id, pc, payload, id_before, conn >>

\* Any other input starts a turn.  In streaming mode line 275 calls
\* print_streaming_response: line 99 prints, the generator builds the
\* payload and posts it, and the connection is open.
StartStream ==
    /\ AtPrompt /\ ~no_stream
    /\ payload' = Payload(TRUE, ActiveTools(tools, use_tools), previous_id)
    /\ id_before' = previous_id
    /\ op' = "turn"
    /\ pc' = "streaming"
    /\ conn' = "open"
    /\ printed' = BeforeLoop
    /\ FreshLocals
    /\ UNCHANGED << no_stream, tools, previous_id, use_tools >>

\* The same, but requests.post raises (connection refused, timeout: no
\* connection is made), or the server answers with an error status and
\* raise_for_status raises (line 44) with the body of resp unread.
StartStreamFails ==
    /\ AtPrompt /\ ~no_stream
    /\ payload' = Payload(TRUE, ActiveTools(tools, use_tools), previous_id)
    /\ id_before' = previous_id
    /\ op' = "error"
    /\ printed' = BeforeLoop \o ErrorMessage
    /\ previous_id' = KeepSession(previous_id, None)
    /\ \E c \in {conn, "open"} : conn' = c
    /\ FreshLocals
    /\ UNCHANGED << no_stream, tools, use_tools, pc >>

\* A turn in non-streaming mode (lines 272-273): the request is posted,
\* the server answers with a response object and it is printed.
NonStreamTurn ==
    /\ AtPrompt /\ no_stream
    /\ payload' = Payload(FALSE, ActiveTools(tools, use_tools), previous_id)
    /\ id_before' = previous_id
    /\ \E resp \in Responses :
        LET r == PrintNonStreaming(resp)
        IN  /\ response' = resp
            /\ printed' = r.prints
            /\ returned' = r.returns
            /\ previous_id' = AssignSession(previous_id, r.returns)
    /\ op' = "returned"
    /\ wire' = << >> /\ idx' = 0 /\ yielded' = << >>
    /\ sr_response_id' = None /\ response_id' = None /\ current_phase' = None
    /\ UNCHANGED << no_stream, tools, use_tools, pc, conn >>

\* The same, but requests.post or resp.json() raises.
NonStreamFails ==
    /\ AtPrompt /\ no_stream
    /\ payload' = Payload(FALSE, ActiveTools(tools, use_tools), previous_id)
    /\ id_before' = previous_id
    /\ op' = "error"
    /\ printed' = ErrorMessage
    /\ previous_id' = KeepSession(previous_id, None)
    /\ FreshLocals
    /\ UNCHANGED << no_stream, tools, use_tools, pc, conn >>

\* The user interrupts a non-streaming turn while requests.post waits for
\* the answer (line 79): nothing of the turn has been printed.
NonStreamInterrupt ==
    /\ AtPrompt /\ no_stream
    /\ payload' = Payload(FALSE, ActiveTools(tools, use_tools), previous_id)
    /\ id_before' = previous_id
    /\ printed' = << >>
    /\ Interrupted
    /\ FreshLocals
    /\ UNCHANGED << no_stream, tools, previous_id, use_tools >>

\* A connection the program left open is closed when the Python runtime
\* finalizes the response object that holds it, at a moment the program
\* does not choose.
Collect ==
    /\ AtPrompt /\ conn = "open"
    /\ conn' = "closed"
    /\ UNCHANGED << no_stream, tools, previous_id, use_tools, pc, wire, idx,
                    yielded, sr_response_id, response_id, current_phase,
                    printed, payload, response, id_before, op, returned >>

Next ==
    \/ InputEmpty
    \/ InputQuit
    \/ InputClear
    \/ InputTools
    \/ StartStream
    \/ StartStreamFails
    \/ NonStreamTurn
    \/ NonStreamFails
    \/ StreamSkip(TurnLines, MaxTurnLines)
    \/ StreamEvent(TurnLines, MaxTurnLines)
    \/ StreamRaise(TurnLines, MaxTurnLines)
    \/ StreamBreak(TurnLines)
    \/ StreamClosed
    \/ StreamDisconnect
    \/ StreamInterrupt
    \/ NonStreamInterrupt
    \/ Collect

Spec == Init /\ [][Next]_vars

-----------------------------------------------------------------------------
(* One call of print_streaming_response by main, from the moment the       *)
(* request is posted to the next prompt, over a larger set of streams.     *)

StreamInit ==
    /\ no_stream = FALSE
    /\ tools = BuildTools(FALSE, FALSE)
    /\ previous_id \in {None, "resp_1"}
    /\ use_tools = TRUE
    /\ pc = "streaming"
    /\ wire = << >>
    /\ idx = 0
    /\ yielded = << >>
    /\ sr_response_id = None
    /\ response_id = None
    /\ current_phase = None
    /\ printed = BeforeLoop
    /\ payload = Payload(TRUE, ActiveTools(tools, use_tools), previous_id)
    /\ response = NoResponse
    /\ id_before = previous_id
    /\ op = "turn"
    /\ returned = None
    /\ conn = "open"

StreamNext ==
    \/ StreamSkip(Lines, MaxLines)
    \/ StreamEvent(Lines, MaxLines)
    \/ StreamRaise(Lines, MaxLines)
    \/ StreamBreak(Lines)
    \/ StreamClosed
    \/ StreamDisconnect

SpecStream == StreamInit /\ [][StreamNext]_vars

-----------------------------------------------------------------------------
(* One turn delivered both ways: the server streams the items of a         *)
(* finished response object, and print_streaming_response interprets the   *)
(* stream; print_non_streaming_response prints the object itself.          *)

RECURSIVE SeqsUpTo(_, _)
SeqsUpTo(S, n) ==
    IF n = 0 THEN { << >> }
    ELSE LET shorter == SeqsUpTo(S, n - 1)
         IN  shorter \cup { Append(x, y) : x \in { z \in shorter : Len(z) = n - 1 }, y \in S }

\* A reasoning text one character longer than the preview.
LongText == [i \in 1..(PreviewLen + 1) |-> "a"]

\* The deltas a text is streamed in: two for a text of two characters or
\* more.
Chunks(x) ==
    IF Len(x) = 0 THEN << >>
    ELSE IF Len(x) = 1 THEN << x >>
    ELSE LET k == (Len(x) + 1) \div 2
         IN  << SubSeq(x, 1, k), SubSeq(x, k + 1, Len(x)) >>

\* The events of the deltas of one text.
RECURSIVE DeltaEvents(_, _)
DeltaEvents(t, chunks) ==
    IF chunks = << >> THEN << >>
    ELSE << Ev(t, Head(chunks), None, None, None) >> \o DeltaEvents(t, Tail(chunks))

\* The events of the content blocks of an item: t for the blocks of kind
\* k, another delta type for the rest.
RECURSIVE BlockEvents(_, _, _)
BlockEvents(content, k, t) ==
    IF content = << >> THEN << >>
    ELSE DeltaEvents(IF Head(content).type = k THEN t ELSE "response.refusal.delta",
                     Chunks(Head(content).text))
         \o BlockEvents(Tail(content), k, t)

\* The events the server streams for one item.
ItemEvents(item) ==
    << EvItem(item.type, item.name) >>
    \o (IF item.type = "reasoning" THEN
            BlockEvents(item.content, "reasoning_text", "response.reasoning_text.delta")
        ELSE IF item.type = "code_interpreter_call" THEN
            DeltaEvents("response.code_interpreter_call_code.delta", Chunks(item.code))
            \o << EvInterpreting, EvCompleted >>
        ELSE IF item.type = "function_call" THEN << EvFunction(Braces) >>
        ELSE BlockEvents(item.content, "output_text", "response.output_text.delta"))

RECURSIVE OutputEvents(_)
OutputEvents(output) ==
    IF output = << >> THEN << >>
    ELSE ItemEvents(Head(output)) \o OutputEvents(Tail(output))

RECURSIVE AsLines(_)
AsLines(evs) ==
    IF evs = << >> THEN << >> ELSE << LnEv(Head(evs)) >> \o AsLines(Tail(evs))

\* The lines of the stream of a response object.
Script(resp) ==
    AsLines(<< EvCreated(resp.id) >> \o OutputEvents(resp.output)) \o << LnDone >>

\* The items of the turns delivered both ways.
EquivItems ==
    { ItReasoning(Hello), ItReasoning(LongText),
      Item("reasoning", << >>, << >>, 0, None),
      ItCode(OnePlusOne, 1), ItCode(OnePlusOne, 0),
      ItFunction("get_weather"),
      ItMessage(<< Block("output_text", World) >>),
      ItMessage(<< Block("output_text", Wor), Block("output_text", Ld) >>),
      ItMessage(<< Block("refusal", Wor) >>) }

\* The line the server sends next, if it has one left.
Scripted ==
    IF idx < Len(Script(response)) THEN { Script(response)[idx + 1] } ELSE { }

EquivInit ==
    /\ no_stream = FALSE
    /\ tools = BuildTools(FALSE, FALSE)
    /\ previous_id = None
    /\ use_tools = TRUE
    /\ pc = "streaming"
    /\ wire = << >>
    /\ idx = 0
    /\ yielded = << >>
    /\ sr_response_id = None
    /\ response_id = None
    /\ current_phase = None
    /\ printed = BeforeLoop
    /\ payload = Payload(TRUE, ActiveTools(tools, use_tools), previous_id)
    /\ response \in { Response("resp_1", out, 0) : out \in SeqsUpTo(EquivItems, MaxItems) }
    /\ id_before = previous_id
    /\ op = "turn"
    /\ returned = None
    /\ conn = "open"

EquivNext ==
    \/ StreamEvent(Scripted, Len(Script(response)))
    \/ StreamBreak(Scripted)

SpecEquiv == EquivInit /\ [][EquivNext]_vars

-----------------------------------------------------------------------------
(* One call of print_non_streaming_response by main (lines 272-273), from  *)
(* the moment non_stream_response has returned the response object, over   *)
(* a larger set of objects.                                                *)

\* A text of n characters; the characters behind the first PreviewLen
\* differ from those before.
TextOf(n) == [i \in 1..n |-> IF i <= PreviewLen THEN "a" ELSE "b"]

\* The items of a response object: every known type, with and without the
\* keys and blocks the printer looks at, and types it does not know.
NonStreamItems ==
    { ItReasoning(Hello),
      ItReasoning(<< >>),
      ItReasoning(TextOf(PreviewLen - 1)),
      ItReasoning(TextOf(PreviewLen)),
      ItReasoning(TextOf(PreviewLen + 1)),
      Item("reasoning", << >>, << >>, 0, None),
      Item("reasoning", << Block("reasoning_text", Wor), Block("reasoning_text", Ld) >>,
           << >>, 0, None),
      ItCode(OnePlusOne, 1),
      ItCode(OnePlusOne, 0),
      ItFunction("get_weather"),
      ItMessage(<< Block("output_text", World) >>),
      ItMessage(<< Block("output_text", Wor), Block("refusal", Hello),
                   Block("output_text", Ld) >>),
      ItMessage(<< >>),
      Item("web_search_call", << >>, << >>, 0, None),
      Item(None, << >>, << >>, 0, None) }

\* The usage of a response object: how far the path to the counter goes,
\* and the counter.
UsageCases ==
    { << "absent", 0 >>, << "usage", 0 >>, << "output_tokens_details", 0 >>,
      << "tool_output_tokens", 0 >>, << "tool_output_tokens", 5 >> }

NonStreamResponses ==
    { ResponseUpTo(i, out, u[1], u[2]) :
        i \in {None, "resp_1"}, out \in SeqsUpTo(NonStreamItems, MaxItems),
        u \in UsageCases }

NonStreamInit ==
    /\ no_stream = TRUE
    /\ tools = BuildTools(FALSE, FALSE)
    /\ previous_id = None
    /\ use_tools = TRUE
    /\ pc = "printing"
    /\ wire = << >>
    /\ idx = 0
    /\ yielded = << >>
    /\ sr_response_id = None
    /\ response_id = None
    /\ current_phase = None
    /\ printed = << >>
    /\ payload = Payload(FALSE, ActiveTools(tools, use_tools), previous_id)
    /\ response \in NonStreamResponses
    /\ id_before = previous_id
    /\ op = "turn"
    /\ returned = None
    /\ conn = "closed"

\* Line 273: the object is printed and the returned id assigned.
NonStreamPrint ==
    /\ pc = "printing"
    /\ LET r == PrintNonStreaming(response)
       IN  /\ printed' = r.prints
           /\ returned' = r.returns
           /\ previous_id' = AssignSession(previous_id, r.returns)
    /\ op' = "returned"
    /\ pc' = "input"
    /\ UNCHANGED << no_stream, tools, use_tools, wire, idx, yielded,
                    sr_response_id, response_id, current_phase, payload,
                    response, id_before, conn >>

NonStreamNext == NonStreamPrint

SpecNonStream == NonStreamInit /\ [][NonStreamNext]_vars

-----------------------------------------------------------------------------
(* Vocabulary of the properties.                                           *)

IsCreated(e) == e.type = "response.created"

DeltaTypes ==
    { "response.reasoning_text.delta", "response.code_interpreter_call_code.delta",
      "response.function_call_arguments.delta", "response.output_text.delta" }

IsDelta(e) == e.type \in DeltaTypes

\* The phase a delta event belongs to.
PhaseOf(t) ==
    CASE t = "response.reasoning_text.delta" -> "reasoning"
      [] t = "response.code_interpreter_call_code.delta" -> "code"
      [] t = "response.function_call_arguments.delta" -> "function"
      [] t = "response.output_text.delta" -> "text"
      [] OTHER -> None

HasCreated(evs) == \E i \in DOMAIN evs : IsCreated(evs[i])

\* A line that is not a well-formed data frame carrying an event object,
\* nor the end marker.
Malformed(line) ==
    \/ line.text # "data"
    \/ line.text = "data" /\ line.body \in {"invalid", "scalar"}

WellFormed(line) == line.text = "data" /\ line.body = "object"

IsDone(line) == line.text = "data" /\ line.body = "done"

\* The events of the well-formed data frames of a sequence of lines.
RECURSIVE FrameEvents(_)
FrameEvents(ls) ==
    IF ls = << >> THEN << >>
    ELSE (IF WellFormed(Head(ls)) THEN << Head(ls).event >> ELSE << >>)
         \o FrameEvents(Tail(ls))

\* The place of the first [DONE] of a sequence of lines, 0 if it has none.
FirstDone(ls) ==
    IF \E i \in DOMAIN ls : IsDone(ls[i])
    THEN CHOOSE i \in DOMAIN ls : IsDone(ls[i]) /\ \A j \in 1..(i - 1) : ~IsDone(ls[j])
    ELSE 0

\* What the interpreter has printed and holds after a sequence of events,
\* started afresh.
RECURSIVE Interpreted(_)
Interpreted(evs) ==
    IF evs = << >>
    THEN [current_phase |-> None, response_id |-> None, prints |-> << >>]
    ELSE LET before == Interpreted(SubSeq(evs, 1, Len(evs) - 1))
             r == OnEvent(evs[Len(evs)], before.current_phase, before.response_id)
         IN  [current_phase |-> r.current_phase, response_id |-> r.response_id,
              prints |-> before.prints \o r.prints]

Last(seq) == seq[Len(seq)]

Count(log, a) == Cardinality({ i \in DOMAIN log : log[i].act = a })

\* The phases entered in a log.
PhasesEntered(log) == { log[i].arg : i \in { j \in DOMAIN log : log[j].act = "beginPhase" } }

\* The phase that is open at place i of a log: that of the last beginPhase
\* before it, None if there is none.
OpenPhaseAt(log, i) ==
    LET before == { j \in 1..(i - 1) : log[j].act = "beginPhase" }
    IN  IF before = {} THEN None
        ELSE log[CHOOSE j \in before : \A k \in before : k <= j].arg

\* A streaming turn has just returned to the prompt, or just failed.
StreamReturned == op = "returned" /\ ~no_stream
StreamFailed   == op = "error" /\ ~no_stream

-----------------------------------------------------------------------------
(* C1.  A streaming turn whose events hold no response.created returns     *)
(* None and leaves the session id as it was before the turn.               *)
(* The code assigns the returned None to previous_id (line 275).           *)

C1_NoIdKeepsSession ==
    (StreamReturned /\ ~HasCreated(yielded))
        => (returned = None /\ previous_id = id_before)

-----------------------------------------------------------------------------
(* C2.  The session id goes from present to absent only by /clear: no      *)
(* turn, whatever it receives, makes a present session id absent.          *)
(* Lines 273 and 275 assign whatever the turn returned.                    *)

C2_OnlyClearDrops ==
    [][ (previous_id # None /\ previous_id' = None) => op' = "clear" ]_vars

-----------------------------------------------------------------------------
(* C3.  Every outgoing turn carries previous_response_id equal to the      *)
(* session id held when the turn starts if that id is present, and no      *)
(* previous_response_id if it is absent.                                   *)
(* Lines 36 and 83 test the id's truth value, so an empty id is not sent.  *)

TurnPosted == op \in {"turn", "returned", "error"}

C3_TurnCarriesSession ==
    TurnPosted =>
        IF id_before # None
        THEN payload.has_previous /\ payload.previous_response_id = id_before
        ELSE ~payload.has_previous

\* C3 as amended: the turn carries the session id held when it starts if
\* that id is present and not the empty string, and no previous_response_id
\* if it is absent or empty; the turn right after a turn that returned a
\* non-empty id X carries X, and the turn right after /clear carries none.
\* A step at the prompt that posts a request (and not the late closing of
\* an earlier turn's connection, which leaves op as the turn set it).
TurnStarts ==
    /\ pc = "input" /\ op' \in {"turn", "returned", "error"}
    /\ ~(conn = "open" /\ conn' = "closed")

C3_TurnCarriesNonEmptySession ==
    /\ [](TurnPosted =>
            IF id_before # None /\ id_before # ""
            THEN payload.has_previous /\ payload.previous_response_id = id_before
            ELSE ~payload.has_previous)
    /\ [][ (TurnStarts /\ op = "returned" /\ returned \notin {None, ""})
              => (payload'.has_previous /\ payload'.previous_response_id = returned) ]_vars
    /\ [][ (TurnStarts /\ op = "clear") => ~payload'.has_previous ]_vars
    /\ [][ TurnStarts => id_before' = previous_id ]_vars

C3_Witness ==
    /\ op = "turn"
    /\ id_before = "resp_2"
    /\ payload.has_previous /\ payload.previous_response_id = "resp_2"

-----------------------------------------------------------------------------
(* C4.  When the transport fails (at the post, or in mid-stream after k    *)
(* events), the turn ends with the failure message, the render actions of  *)
(* the k events are all printed before it, the session id is what it was   *)
(* before the turn even if a response.created was among the k events, and  *)
(* the REPL is back at its prompt.                                         *)

C4_FailureKeepsSessionAndOutput ==
    op = "error" =>
        /\ pc = "input"
        /\ previous_id = id_before
        /\ printed = (IF no_stream THEN << >> ELSE BeforeLoop)
                     \o Interpreted(yielded).prints \o ErrorMessage
        /\ Count(printed, "error") = 1

C4_Witness ==
    /\ StreamFailed
    /\ id_before = "resp_1"
    /\ \E i \in DOMAIN yielded : IsCreated(yielded[i]) /\ yielded[i].id = "resp_2"
    /\ Count(printed, "appendText") >= 1
    /\ Malformed(Last(wire)) = FALSE

-----------------------------------------------------------------------------
(* C5.  A line that is empty, has no 'data: ' prefix, or is a data frame   *)
(* whose payload is not an event object (unparseable, or parseable but not *)
(* an object) is dropped: reading it raises nothing, ends nothing, yields  *)
(* nothing and prints nothing.                                             *)
(* A payload such as 42 parses, and event.get raises on it (line 64).      *)

C5_MalformedDropped ==
    [][ (idx' = idx + 1 /\ Malformed(wire'[idx']))
            => (pc' = "streaming" /\ op' = op /\ yielded' = yielded
                /\ printed' = printed) ]_vars

-----------------------------------------------------------------------------
(* C6.  Consecutive delta events of one kind open their phase once: each   *)
(* delta event prints exactly one appendText, with its text, in event      *)
(* order; the phase open where that text is printed is the delta's phase,  *)
(* its beginPhase having been printed before the text; and a beginPhase of *)
(* a delta's phase is printed only when the phase open before it differs,  *)
(* so N consecutive deltas of one kind that start in another phase print   *)
(* one beginPhase followed by N appendText.                                *)

Deltas(evs) == SelectSeq(evs, IsDelta)

AppendPlaces(log) == { i \in DOMAIN log : log[i].act = "appendText" }

\* The rank of place i among the appendText places of a log.
AppendRank(log, i) == Cardinality({ j \in AppendPlaces(log) : j <= i })

DeltaPhases == {"reasoning", "code", "function", "text"}

C6_OneBeginPerRun ==
    LET deltas == Deltas(yielded)
    IN  /\ Count(printed, "appendText") = Len(deltas)
        /\ \A i \in AppendPlaces(printed) :
              LET d == deltas[AppendRank(printed, i)]
              IN  /\ printed[i].text = d.delta
                  /\ OpenPhaseAt(printed, i) = PhaseOf(d.type)
        /\ \A i \in DOMAIN printed :
              (printed[i].act = "beginPhase" /\ printed[i].arg \in DeltaPhases)
                  => /\ OpenPhaseAt(printed, i) # printed[i].arg
                     /\ i < Len(printed)
                     /\ printed[i + 1].act = "appendText"

\* Three answer-text deltas in a row at the start of a turn.
C6_Witness ==
    /\ Len(yielded) = 3
    /\ \A i \in 1..3 : yielded[i].type = "response.output_text.delta"
    /\ printed = BeforeLoop \o << BeginPhase("text"), AppendText(Wor),
                                  AppendText(Ld), AppendText(Wor) >>

-----------------------------------------------------------------------------
(* C7.  For one turn delivered both ways, the set of phases entered by     *)
(* print_streaming_response equals the set entered by                      *)
(* print_non_streaming_response and the final answering text is the same;  *)
(* items [reasoning("hello"), message([output_text("world")])] give phases *)
(* [reasoning, answering] and answer text "world" both ways.               *)
(* The streaming path enters the executing phase at a code execution and   *)
(* the function phase at function-call arguments; the other path does not. *)

\* The phases of a log in the order they are entered.
RECURSIVE PhaseSeq(_)
PhaseSeq(log) ==
    IF log = << >> THEN << >>
    ELSE (IF Head(log).act = "beginPhase" THEN << Head(log).arg >> ELSE << >>)
         \o PhaseSeq(Tail(log))

\* The text appended while the answering phase is open, up to place i.
RECURSIVE AnswerUpTo(_, _)
AnswerUpTo(log, i) ==
    IF i = 0 THEN << >>
    ELSE AnswerUpTo(log, i - 1)
         \o (IF log[i].act = "appendText" /\ OpenPhaseAt(log, i) = "text"
             THEN log[i].text ELSE << >>)

AnswerText(log) == AnswerUpTo(log, Len(log))

NonStreamed == PrintNonStreaming(response).prints

HelloWorldTurn ==
    response.output = << ItReasoning(Hello), ItMessage(<< Block("output_text", World) >>) >>

C7_SamePhasesSameAnswer ==
    StreamReturned =>
        /\ PhasesEntered(printed) = PhasesEntered(NonStreamed)
        /\ AnswerText(printed) = AnswerText(NonStreamed)

\* C7 as amended: for a turn whose texts are not empty, the phases entered
\* by the streaming path, the executing and function phases apart, are
\* those entered by the other path, and the answering text is the same.
C7_SamePhasesApartFromTools ==
    StreamReturned =>
        /\ PhasesEntered(printed) \ {"executing", "function"} = PhasesEntered(NonStreamed)
        /\ AnswerText(printed) = AnswerText(NonStreamed)
        /\ HelloWorldTurn =>
              /\ PhaseSeq(printed) = << "reasoning", "text" >>
              /\ PhaseSeq(NonStreamed) = << "reasoning", "text" >>
              /\ AnswerText(printed) = World
              /\ AnswerText(NonStreamed) = World

C7_Witness ==
    /\ StreamReturned
    /\ HelloWorldTurn
    /\ AnswerText(printed) = World
    /\ Count(printed, "appendText") = 4

-----------------------------------------------------------------------------
(* C8.  A streaming turn with one or more response.created events returns  *)
(* the id of the first of them that carries an id; later response.created  *)
(* events do not change it.                                                *)
(* Line 106 assigns at every response.created, so the last one decides.    *)

FirstWithId(evs) ==
    LET bearing == { i \in DOMAIN evs : IsCreated(evs[i]) /\ evs[i].id # None }
    IN  IF bearing = {} THEN None
        ELSE evs[CHOOSE i \in bearing : \A j \in bearing : i <= j].id

C8_FirstIdWins ==
    (StreamReturned /\ HasCreated(yielded)) => returned = FirstWithId(yielded)

-----------------------------------------------------------------------------
(* C9.  Every streaming turn over a finite sequence of lines comes to an   *)
(* end; when the events end, by [DONE] or by the stream closing, whatever  *)
(* phase is open, the turn prints one reset after the actions of the last  *)
(* event, none before, and returns.                                        *)

C9_Finalized ==
    StreamReturned =>
        /\ pc = "input"
        /\ printed = BeforeLoop \o Interpreted(yielded).prints \o AfterLoop
        /\ Last(printed) = Mark("reset")
        /\ Count(printed, "reset") = 1
        /\ returned = response_id

\* C9: every turn that ends normally is finalized as above, and every turn
\* comes to an end (a turn that ends by an exception ends in main's except
\* clause, without the reset).
C9_TerminatesFinalized == []C9_Finalized /\ <>(pc = "input")

\* [DONE] right after code deltas: the code phase is open at the end.
C9_Witness ==
    /\ StreamReturned
    /\ current_phase = "code"
    /\ IsDone(wire[idx])
    /\ Last(printed) = Mark("reset")
    /\ printed[Len(printed) - 1].act = "appendText"

-----------------------------------------------------------------------------
(* C10.  The decoder stops at the first [DONE]: it reads no line behind    *)
(* it, so the events yielded, the render actions, the phase and the id of  *)
(* the turn are those of the lines before it, and the turn returns.        *)

C10_StopsAtDone ==
    LET d == FirstDone(wire)
    IN  (~no_stream /\ d > 0) =>
            /\ idx <= d
            /\ idx = d =>
                /\ StreamReturned
                /\ yielded = FrameEvents(SubSeq(wire, 1, d - 1))
                /\ printed = BeforeLoop \o Interpreted(yielded).prints \o AfterLoop
                /\ current_phase = Interpreted(yielded).current_phase
                /\ returned = Interpreted(yielded).response_id

\* [DONE] with an answer-text frame behind it, after two yielded events.
C10_Witness ==
    /\ StreamReturned
    /\ FirstDone(wire) = idx
    /\ Len(wire) > idx
    /\ WellFormed(wire[idx + 1])
    /\ Len(yielded) = 2
    /\ Count(printed, "appendText") = 2

\* Fairness of the streaming turn: the loop goes on whenever the transport
\* hands out a line, ends or fails, and a finite stream does one of these.
SpecStreamFair == SpecStream /\ WF_vars(StreamNext)

-----------------------------------------------------------------------------
(* C11.  An event whose type is none of the eight known strings, or that   *)
(* has no type, prints nothing and leaves the current phase and the        *)
(* captured id as they are, wherever it comes in the stream.               *)

KnownTypes ==
    DeltaTypes \cup
    { "response.created", "response.code_interpreter_call.interpreting",
      "response.code_interpreter_call.completed", "response.output_item.added" }

\* This step handles one more event.
Handles == Len(yielded') = Len(yielded) + 1

C11_UnknownIgnored ==
    [][ (Handles /\ Last(yielded').type \notin KnownTypes)
            => /\ printed' = printed
               /\ current_phase' = current_phase
               /\ response_id' = response_id
               /\ pc' = pc ]_vars

\* An unknown event after a response.created and an answer delta.
C11_Witness ==
    /\ Len(yielded) = 3
    /\ yielded[3] = EvFuture
    /\ current_phase = "text"
    /\ response_id = "resp_1"
    /\ printed = BeforeLoop \o << BeginPhase("text"), AppendText(Wor) >>

-----------------------------------------------------------------------------
(* C12.  A response.output_item.added event of item type function_call     *)
(* prints one toolAnnounce with the item's name, whatever the phase, and   *)
(* leaves the phase as it is, so that a delta of the open phase's kind     *)
(* after it prints no beginPhase; an item of another type prints nothing.  *)

IsItemAdded(e) == e.type = "response.output_item.added"

C12_AnnounceKeepsPhase ==
    /\ [][ (Handles /\ IsItemAdded(Last(yielded')))
              => /\ printed' = printed \o
                        (IF Last(yielded').item_type = "function_call"
                         THEN << ToolAnnounce(Last(yielded').name) >> ELSE << >>)
                 /\ current_phase' = current_phase
                 /\ response_id' = response_id ]_vars
    /\ [][ (Handles /\ Len(yielded) >= 2
            /\ IsItemAdded(Last(yielded))
            /\ IsDelta(yielded[Len(yielded) - 1])
            /\ Last(yielded').type = yielded[Len(yielded) - 1].type)
              => printed' = printed \o << AppendText(Last(yielded').delta) >> ]_vars

\* A tool announcement between two answer deltas.
C12_Witness ==
    /\ yielded = << EvText(Wor), EvItem("function_call", "get_weather"), EvText(Ld) >>
    /\ current_phase = "text"
    /\ printed = BeforeLoop \o << BeginPhase("text"), AppendText(Wor),
                                  ToolAnnounce("get_weather"), AppendText(Ld) >>

-----------------------------------------------------------------------------
(* C13.  An interrupt during a turn ends only that turn: what was printed  *)
(* stays, the session id is the one held before the turn, and the REPL is  *)
(* back at its prompt; the process does not end.                           *)

C13_InterruptAbortsTurn ==
    op = "interrupt" =>
        /\ pc = "input"
        /\ previous_id = id_before

-----------------------------------------------------------------------------
(* C15.  The connection of a turn is closed by the time the turn is over,  *)
(* on every way out of the turn: between turns and after the REPL has      *)
(* ended no connection is open.                                            *)

-----------------------------------------------------------------------------
(* C16.  A response.code_interpreter_call.completed event prints one       *)
(* closing marker and leaves no phase open, in whatever phase it comes:    *)
(* the next delta of any of the four kinds prints the beginPhase of its    *)
(* phase before its text.                                                  *)

IsCompleted(e) == e.type = "response.code_interpreter_call.completed"

C16_CompletedClosesPhase ==
    /\ [][ (Handles /\ IsCompleted(Last(yielded')))
              => printed' = printed \o << Mark("executionDone") >> ]_vars
    /\ [][ (Handles /\ Len(yielded) >= 1
            /\ IsCompleted(Last(yielded)) /\ IsDelta(Last(yielded')))
              => printed' = printed \o
                     << BeginPhase(PhaseOf(Last(yielded').type)),
                        AppendText(Last(yielded').delta) >> ]_vars

-----------------------------------------------------------------------------
(* C14.  The printed preview of a reasoning item is the first              *)
(* min(len, 200) characters of the text of its first content block, and    *)
(* the ellipsis follows it exactly when the text is longer than 200        *)
(* characters.                                                             *)

Printed == op = "returned" /\ pc = "input"

Min(a, b) == IF a <= b THEN a ELSE b

\* The place in the log behind the prints of the items before item i.
PrintedBefore(i) == Len(PrintItems(SubSeq(response.output, 1, i - 1)))

C14_PreviewBoundary ==
    Printed =>
        \A i \in DOMAIN response.output :
            LET item == response.output[i]
            IN  (item.type = "reasoning" /\ item.content # << >>) =>
                LET text == item.content[1].text
                    at   == PrintedBefore(i)
                IN  /\ at + 2 <= Len(printed)
                    /\ printed[at + 2] =
                           AppendText([j \in 1..Min(Len(text), 200) |-> text[j]])
                    /\ (Len(text) > 200) <=>
                           (at + 3 <= Len(printed) /\ printed[at + 3] = Mark("ellipsis"))

\* A text of 201 characters is printed as its first 200 and the ellipsis,
\* and a text of 200 characters after it in full.
C14_Witness ==
    /\ Printed
    /\ response.output = << ItReasoning(TextOf(201)), ItReasoning(TextOf(200)) >>
    /\ printed = << BeginPhase("reasoning"), AppendText(TextOf(200)), Mark("ellipsis"),
                    BeginPhase("reasoning"), AppendText(TextOf(200)),
                    Mark("newline") >>

-----------------------------------------------------------------------------
(* C17.  print_non_streaming_response prints item by item in the order of  *)
(* response.output, and every item of a known type prints its actions: a   *)
(* reasoning item the beginPhase of reasoning and the preview, a           *)
(* code_interpreter_call item the beginPhase of code and its code, and an  *)
(* output action only when outputs is not empty, a function_call item the  *)
(* toolAnnounce of its name and the instruction, a message item one        *)
(* answering action per content block of kind output_text; an item of an   *)
(* unknown type prints nothing.                                            *)

IsOutputText(b) == b.type = "output_text"

RECURSIVE Answering(_)
Answering(blocks) ==
    IF blocks = << >> THEN << >>
    ELSE << BeginPhase("text"), AppendText(Head(blocks).text) >> \o Answering(Tail(blocks))

\* What an item prints; noContent is what a reasoning item without
\* content blocks prints.
ItemActions(item, noContent) ==
    CASE item.type = "reasoning" ->
            IF item.content = << >> THEN noContent
            ELSE << BeginPhase("reasoning"),
                    AppendText(Take(item.content[1].text, 200)) >>
                 \o (IF Len(item.content[1].text) > 200
                     THEN << Mark("ellipsis") >> ELSE << >>)
      [] item.type = "code_interpreter_call" ->
            << BeginPhase("code"), AppendText(item.code) >>
            \o (IF item.outputs = 0 THEN << >> ELSE << Mark("output") >>)
      [] item.type = "function_call" ->
            << ToolAnnounce(item.name), Mark("arguments"), Mark("instruction") >>
      [] item.type = "message" -> Answering(SelectSeq(item.content, IsOutputText))
      [] OTHER -> << >>

\* The actions of the items i..Len(output), in list order.
RECURSIVE ActionsFrom(_, _, _)
ActionsFrom(output, i, noContent) ==
    IF i > Len(output) THEN << >>
    ELSE ItemActions(output[i], noContent) \o ActionsFrom(output, i + 1, noContent)

\* What was printed for the items: the log without the usage note and the
\* closing newline.
ItemPart ==
    LET n == Len(printed) - 1
    IN  IF n >= 1 /\ printed[n].act = "usageNote"
        THEN SubSeq(printed, 1, n - 1)
        ELSE SubSeq(printed, 1, n)

\* As stated: every reasoning item prints a beginPhase and a preview.
C17_EveryItemYields ==
    Printed =>
        ItemPart = ActionsFrom(response.output, 1,
                               << BeginPhase("reasoning"), AppendText(<< >>) >>)

\* A reasoning item prints them when it has a content block, and nothing
\* when it has none.
C17_EveryItemWithContentYields ==
    Printed => ItemPart = ActionsFrom(response.output, 1, << >>)

\* A reasoning item without content blocks before a message of three
\* blocks, two of them output_text.
C17_Witness ==
    /\ Printed
    /\ response.output =
         << Item("reasoning", << >>, << >>, 0, None),
            ItMessage(<< Block("output_text", Wor), Block("refusal", Hello),
                         Block("output_text", Ld) >>) >>
    /\ printed = << BeginPhase("text"), AppendText(Wor),
                    BeginPhase("text"), AppendText(Ld), Mark("newline") >>

-----------------------------------------------------------------------------
(* C18.  print_non_streaming_response prints exactly one usageNote, behind *)
(* the actions of all items, when usage.output_tokens_details              *)
(* .tool_output_tokens is greater than 0, and none when it is 0 or when    *)
(* one of the three keys is missing; it raises in neither case.            *)

HasToolTokens ==
    /\ response.usage_path = "tool_output_tokens"
    /\ response.tool_output_tokens > 0

C18_UsageNoteIffTokens ==
    /\ op # "error"
    /\ Printed =>
        /\ Count(printed, "usageNote") = (IF HasToolTokens THEN 1 ELSE 0)
        /\ HasToolTokens =>
            /\ Len(printed) = Len(PrintItems(response.output)) + 2
            /\ printed[Len(printed) - 1] = UsageNote(response.tool_output_tokens)
        /\ Last(printed) = Mark("newline")
        /\ returned = response.id

\* A code item and a counter of 5.
C18_Witness ==
    /\ Printed
    /\ response.output = << ItCode(OnePlusOne, 1) >>
    /\ HasToolTokens
    /\ printed = << BeginPhase("code"), AppendText(OnePlusOne), Mark("output"),
                    UsageNote(5), Mark("newline") >>

-----------------------------------------------------------------------------
(* C19.  The phase does not leak from one turn into the next: a streaming  *)
(* turn starts with no phase and no captured id, so what it prints and     *)
(* returns is what its own events give from that start, whatever the       *)
(* turns, session ids and tool settings before it.                         *)

C19_NoLeakAcrossTurns ==
    /\ [][ (pc = "input" /\ pc' = "streaming")
              => /\ current_phase' = None
                 /\ response_id' = None
                 /\ printed' = BeforeLoop ]_vars
    /\ []((Streaming \/ StreamReturned \/ StreamFailed) =>
            /\ current_phase = Interpreted(yielded).current_phase
            /\ response_id = Interpreted(yielded).response_id)
    /\ [](Streaming => printed = BeforeLoop \o Interpreted(yielded).prints)
    /\ [](StreamReturned =>
            /\ printed = BeforeLoop \o Interpreted(yielded).prints \o AfterLoop
            /\ returned = Interpreted(yielded).response_id)

\* A turn of one answer delta, after a turn that captured an id and with
\* the tools switched off in between.
C19_Witness ==
    /\ StreamReturned
    /\ id_before = "resp_1"
    /\ ~use_tools
    /\ yielded = << EvText(Wor) >>
    /\ printed = BeforeLoop \o << BeginPhase("text"), AppendText(Wor) >> \o AfterLoop
    /\ returned = None

-----------------------------------------------------------------------------
(* C20.  /tools only flips the toggle: it posts no request and leaves the  *)
(* session id and the configured tools as they are, so that a second       *)
(* /tools brings the toggle back.  Every turn, streaming or not, carries   *)
(* the configured tools when the toggle is on and no tools when it is off. *)

C20_ToolsOnlyToggles ==
    /\ [][ InputTools
              => /\ use_tools' = ~use_tools
                 /\ UNCHANGED << previous_id, tools, payload, pc, conn, no_stream >> ]_vars
    /\ [][ use_tools' # use_tools => op' = "tools" ]_vars
    /\ []((TurnPosted \/ op = "interrupt") =>
            /\ payload.tools = (IF use_tools THEN tools ELSE << >>)
            /\ payload.stream = ~no_stream)

\* A streaming turn posted with the tools switched off, after a turn that
\* captured an id with both tools configured.
C20_Witness ==
    /\ op = "turn"
    /\ ~use_tools
    /\ tools = << "code_interpreter", "web_search_preview" >>
    /\ id_before = "resp_1"
    /\ payload.tools = << >>
    /\ payload.stream

=============================================================================
